---- MODULE Spec2Model ----
(***************************************************************************)
(* Model of the postinit sample (package logger, package prog, main).      *)
(*                                                                         *)
(* The package keeps two unsynchronised globals:                           *)
(*   logger  - the Logger value; "initialised" means instance is non-empty *)
(*   chann   - a slice of one-slot channels, the queue of pending logs     *)
(* Init (one goroutine) sets logger and then ranges over chann; callers    *)
(* (main, and any further goroutine using the exported Log / SafeLog)      *)
(* run concurrently with it.  Every read and every write of a global is a  *)
(* step of its own, so the interleavings of the unlocked accesses are      *)
(* explored.  A slice is a header (ptr, len, cap) over a backing array;    *)
(* `chann = append(chann, ch)` is not atomic: as the gc compiler emits it, *)
(* it loads the header, on growth allocates a larger array, copies, and    *)
(* stores cap and ptr, then stores len, and only then stores the new       *)
(* element into the array.  The words of a header are read together.       *)
(***************************************************************************)
EXTENDS Integers, Sequences, FiniteSets, TLC

(* ------------------------------ bounds -------------------------------- *)
\* number of goroutines that call Caller1 / Caller2 (the first one is main)
NumCallers == 2
\* number of calls the callers issue altogether under Spec
MaxCalls == 2

(* ------------------------- program constants -------------------------- *)
\* main.go:18  for i := 0; i < 5; i++
Iterations == 5
\* logger.go:53  make(chan logDetail, 1)
ChanCap == 1
\* main.go:12  wg.Add(1)
WgInit == 1

CallerIds == <<"main", "g1", "g2", "g3">>
Callers == {CallerIds[k] : k \in 1..NumCallers}
Procs == Callers \cup {"init"}

\* error values
Nil == "nil"
NotInitialized == "logger instance not initialized"

\* zero values
NoMsg == <<"", 0>>
NilChan == 0
\* what a read outside a backing array yields: not a channel
Wild == NilChan - 1
\* make([]chan logDetail, 0)
EmptySlice == [ptr |-> 0, len |-> 0, cap |-> 0]

VARIABLES
    logger,     \* logger.go:10   the Logger value, [instance |-> string]
    chann,      \* logger.go:20   the slice header [ptr, len, cap]
    arrs,       \* the backing arrays allocated so far, by name (0 = none)
    chans,      \* the channels made so far, by name: [buf, cap, closed, hist]
    out,        \* what Log has printed (logger.go:39): [msg, by]
    wg,         \* main.go:11     the WaitGroup counter
    panicked,   \* a goroutine panicked (send on / close of a closed channel)
    prog,       \* the calls each caller issues: seq of [fn, msg]
    idx,        \* position of each caller in its call sequence
    pc,         \* control point of each goroutine
    arg,        \* msg parameter of the running Log / SafeLog
    saw,        \* what the running call's first readiness check read
    ch,         \* SafeLog's local ch
    tmp,        \* append's working copy of the slice header
    rng,        \* Init: the slice header the range clause evaluated
    i,          \* Init: index of the range loop (1-based)
    v,          \* Init: v, the element the loop is at
    val,        \* Init: val
    drained,    \* Init: the elements the loop has read so far
    rets,       \* results of the finished calls, per goroutine
    enqueued    \* channels in the order their append stored to chann

vars == <<logger, chann, arrs, chans, out, wg, panicked, prog, idx, pc, arg,
          saw, ch, tmp, rng, i, v, val, drained, rets, enqueued>>

(* ------------------------------ helpers ------------------------------- *)
\* len(logger.instance) > 0
IsInitialized(l) == l.instance # ""

\* the program keeps running until main returns or a goroutine panics
Running == ~panicked /\ pc["main"] # "exit"

\* fmt.Sprintf("func: caller1 value-%v", i+1) / ("func: caller2 value-%v", i+1)
Sprintf(who, n) == <<who, n>>

\* body of main's loop, unrolled: Caller1(value-k), Caller2(value-k), k = 1..5
MainProg ==
    [k \in 1..(2 * Iterations) |->
        IF k % 2 = 1
        THEN [fn |-> "Caller1", msg |-> Sprintf("caller1", (k + 1) \div 2)]
        ELSE [fn |-> "Caller2", msg |-> Sprintf("caller2", k \div 2)]]

\* a call sequence of caller c: the k-th call carries the message <<c, k>>
MkProg(c, fns) ==
    [k \in 1..Len(fns) |-> [fn |-> fns[k], msg |-> Sprintf(c, k)]]

FnSeqs == UNION {[1..n -> {"Caller1", "Caller2"}] : n \in 0..MaxCalls}

RECURSIVE TotalLen(_, _)
TotalLen(f, S) ==
    IF S = {} THEN 0
    ELSE LET c == CHOOSE x \in S : TRUE IN Len(f[c]) + TotalLen(f, S \ {c})

\* the element at (1-based) index k of the array at p, as memory stands
Slot(a, p, k) ==
    IF p \in DOMAIN a /\ k \in DOMAIN a[p] THEN a[p][k] ELSE Wild

\* the slice a header h denotes, over the arrays a
SliceOf(a, h) == [k \in 1..h.len |-> Slot(a, h.ptr, k)]

\* runtime.growslice's capacity for small slices: the needed one, or double
GrowCap(oldcap, needed) ==
    IF 2 * oldcap < needed THEN needed ELSE 2 * oldcap

IsChan(c) == c \in DOMAIN chans

\* the name of what the running call of caller c allocates (a channel, an
\* array): any fresh name will do, this one does not depend on the schedule
CallerNo(c) == CHOOSE n \in DOMAIN CallerIds : CallerIds[n] = c
NewId(c) == 100 * CallerNo(c) + idx[c]

\* the value a channel was given (every channel is sent to right after make)
Payload(c) == chans[c].hist[1].message

HasNext(c) == idx[c] <= Len(prog[c])

\* return from the outermost call of goroutine p with error value e
Return(p, e, sawReady) ==
    LET r == [fn |-> IF p = "init" THEN "Log" ELSE prog[p][idx[p]].fn,
              msg |-> arg[p], err |-> e, sawReady |-> sawReady,
              readyAtReturn |-> IsInitialized(logger)]
    IN /\ rets' = [rets EXCEPT ![p] = Append(@, r)]
       /\ arg' = [arg EXCEPT ![p] = NoMsg]
       /\ saw' = [saw EXCEPT ![p] = "none"]
       /\ IF p = "init"
          THEN /\ pc' = [pc EXCEPT ![p] = "InitClose"]
               /\ UNCHANGED idx
          ELSE /\ pc' = [pc EXCEPT ![p] = "idle"]
               /\ idx' = [idx EXCEPT ![p] = @ + 1]

(* --------------------------- initial states --------------------------- *)
InitCommon ==
    /\ logger = [instance |-> ""]
    /\ chann = EmptySlice
    /\ arrs = <<>>
    /\ chans = <<>>
    /\ out = <<>>
    /\ wg = WgInit
    /\ panicked = FALSE
    /\ idx = [c \in Callers |-> 1]
    /\ pc = [p \in Procs |-> IF p = "init" THEN "InitSleep" ELSE "idle"]
    /\ arg = [p \in Procs |-> NoMsg]
    /\ saw = [p \in Procs |-> "none"]
    /\ ch = [c \in Callers |-> NilChan]
    /\ tmp = [c \in Callers |-> EmptySlice]
    /\ rng = EmptySlice
    /\ i = 0
    /\ v = NilChan
    /\ drained = <<>>
    /\ val = [message |-> NoMsg]
    /\ rets = [p \in Procs |-> <<>>]
    /\ enqueued = <<>>

\* any callers, issuing any call sequences of at most MaxCalls calls in all
Init ==
    /\ InitCommon
    /\ \E f \in [Callers -> FnSeqs] :
          /\ TotalLen(f, Callers) <= MaxCalls
          /\ prog = [c \in Callers |-> MkProg(c, f[c])]

\* two goroutines using the package at once: main issues two SafeLog calls,
\* a second goroutine one SafeLog call and one Log call
RaceProg(c) ==
    IF c = "main" THEN MkProg(c, <<"Caller2", "Caller2">>)
    ELSE IF c = "g1" THEN MkProg(c, <<"Caller2", "Caller1">>)
    ELSE <<>>

InitRace ==
    /\ InitCommon
    /\ prog = [c \in Callers |-> RaceProg(c)]

\* the program of main.go: main is the only caller
InitMain ==
    /\ InitCommon
    /\ prog = [c \in Callers |-> IF c = "main" THEN MainProg ELSE <<>>]

(* ------------------------------ package prog -------------------------- *)
\* func Caller1(msg string) error { return logger.Log(msg) }
Caller1(c) ==
    /\ Running /\ pc[c] = "idle" /\ HasNext(c)
    /\ prog[c][idx[c]].fn = "Caller1"
    /\ pc' = [pc EXCEPT ![c] = "Log"]
    /\ arg' = [arg EXCEPT ![c] = prog[c][idx[c]].msg]
    /\ UNCHANGED <<logger, chann, arrs, chans, out, wg, panicked, prog, idx,
                   saw, ch, tmp, rng, i, v, val, drained, rets, enqueued>>

\* func Caller2(msg string) error { return logger.SafeLog(msg) }
Caller2(c) ==
    /\ Running /\ pc[c] = "idle" /\ HasNext(c)
    /\ prog[c][idx[c]].fn = "Caller2"
    /\ pc' = [pc EXCEPT ![c] = "SafeLog"]
    /\ arg' = [arg EXCEPT ![c] = prog[c][idx[c]].msg]
    /\ UNCHANGED <<logger, chann, arrs, chans, out, wg, panicked, prog, idx,
                   saw, ch, tmp, rng, i, v, val, drained, rets, enqueued>>

(* ------------------------------ logger.Log ---------------------------- *)
\* variant: the else branch is missing, the message is printed in any case
LogCheck_AlwaysPrint(p) ==
    /\ Running /\ pc[p] = "Log"
    /\ pc' = [pc EXCEPT ![p] = "LogPrint"]
    /\ saw' = [saw EXCEPT ![p] =
                IF @ # "none" THEN @
                ELSE IF IsInitialized(logger) THEN "ready" ELSE "notready"]
    /\ UNCHANGED <<logger, chann, arrs, chans, out, wg, panicked, prog, idx,
                   arg, ch, tmp, rng, i, v, val, drained, rets, enqueued>>

\* if len(logger.instance) > 0 { ... } else { return errors.New(...) }
LogCheck(p) ==
    /\ Running /\ pc[p] = "Log"
    /\ IF IsInitialized(logger)
       THEN /\ pc' = [pc EXCEPT ![p] = "LogPrint"]
            /\ saw' = [saw EXCEPT ![p] = IF @ = "none" THEN "ready" ELSE @]
            /\ UNCHANGED <<arg, idx, rets>>
       ELSE Return(p, NotInitialized, saw[p] = "ready")
    /\ UNCHANGED <<logger, chann, arrs, chans, out, wg, panicked, prog, ch,
                   tmp, rng, i, v, val, drained, enqueued>>

\* fmt.Printf("got message to log `%v`\n", msg); return nil
LogPrint(p) ==
    /\ Running /\ pc[p] = "LogPrint"
    /\ out' = Append(out, [msg |-> arg[p], by |-> p])
    /\ Return(p, Nil, saw[p] = "ready")
    /\ UNCHANGED <<logger, chann, arrs, chans, wg, panicked, prog, ch, tmp,
                   rng, i, v, val, drained, enqueued>>

(* ---------------------------- logger.SafeLog -------------------------- *)
\* variant: a SafeLog call that finds the logger not ready initialises it
\* itself and logs inline
SafeLogCheck_LazyInit(c) ==
    /\ Running /\ pc[c] = "SafeLog"
    /\ logger' = [instance |-> "Logger"]
    /\ pc' = [pc EXCEPT ![c] = "Log"]
    /\ saw' = [saw EXCEPT ![c] = "ready"]
    /\ UNCHANGED <<chann, arrs, chans, out, wg, panicked, prog, idx,
                   arg, ch, tmp, rng, i, v, val, drained, rets, enqueued>>

\* variant: the message is queued whatever the readiness check read
SafeLogCheck_AlwaysQueue(c) ==
    /\ Running /\ pc[c] = "SafeLog"
    /\ pc' = [pc EXCEPT ![c] = "SafeLogMake"]
    /\ saw' = [saw EXCEPT ![c] =
                IF IsInitialized(logger) THEN "ready" ELSE "notready"]
    /\ UNCHANGED <<logger, chann, arrs, chans, out, wg, panicked, prog, idx,
                   arg, ch, tmp, rng, i, v, val, drained, rets, enqueued>>

\* if len(logger.instance) > 0 { return Log(msg) } else { ... }
SafeLogCheck(c) ==
    /\ Running /\ pc[c] = "SafeLog"
    /\ IF IsInitialized(logger)
       THEN /\ pc' = [pc EXCEPT ![c] = "Log"]
            /\ saw' = [saw EXCEPT ![c] = "ready"]
       ELSE /\ pc' = [pc EXCEPT ![c] = "SafeLogMake"]
            /\ saw' = [saw EXCEPT ![c] = "notready"]
    /\ UNCHANGED <<logger, chann, arrs, chans, out, wg, panicked, prog, idx,
                   arg, ch, tmp, rng, i, v, val, drained, rets, enqueued>>

\* ld := logDetail{message: msg}; ch := make(chan logDetail, 1)
SafeLogMake(c) ==
    /\ Running /\ pc[c] = "SafeLogMake"
    /\ chans' = (NewId(c) :> [buf |-> <<>>, cap |-> ChanCap,
                               closed |-> FALSE, hist |-> <<>>]) @@ chans
    /\ ch' = [ch EXCEPT ![c] = NewId(c)]
    /\ pc' = [pc EXCEPT ![c] = "SafeLogSend"]
    /\ UNCHANGED <<logger, chann, arrs, out, wg, panicked, prog, idx, arg,
                   saw, tmp, rng, i, v, val, drained, rets, enqueued>>

\* ch <- ld   (blocks while the buffer is full; panics on a closed channel)
SafeLogSend(c) ==
    /\ Running /\ pc[c] = "SafeLogSend"
    /\ LET k == ch[c] IN
       IF chans[k].closed
       THEN /\ panicked' = TRUE
            /\ UNCHANGED <<chans, pc>>
       ELSE /\ Len(chans[k].buf) < chans[k].cap
            /\ chans' = [chans EXCEPT
                           ![k].buf = Append(@, [message |-> arg[c]]),
                           ![k].hist = Append(@, [message |-> arg[c]])]
            /\ pc' = [pc EXCEPT ![c] = "SafeLogLoad"]
            /\ UNCHANGED panicked
    /\ UNCHANGED <<logger, chann, arrs, out, wg, prog, idx, arg, saw, ch,
                   tmp, rng, i, v, val, drained, rets, enqueued>>

\* append(chann, ch): load the header of chann; grow if len+1 > cap
SafeLogLoad(c) ==
    /\ Running /\ pc[c] = "SafeLogLoad"
    /\ tmp' = [tmp EXCEPT ![c] = chann]
    /\ pc' = [pc EXCEPT ![c] =
                IF chann.len + 1 > chann.cap
                THEN "SafeLogGrow" ELSE "SafeLogStoreLen"]
    /\ UNCHANGED <<logger, chann, arrs, chans, out, wg, panicked, prog, idx,
                   arg, saw, ch, rng, i, v, val, drained, rets, enqueued>>

\* append's growth path: a new array holding a copy of the old elements,
\* then the stores of chann.cap and chann.ptr (chann.len is stored later)
SafeLogGrow(c) ==
    /\ Running /\ pc[c] = "SafeLogGrow"
    /\ LET newcap == GrowCap(tmp[c].cap, tmp[c].len + 1)
           newarr == [k \in 1..newcap |->
                        IF k <= tmp[c].len THEN Slot(arrs, tmp[c].ptr, k)
                        ELSE NilChan]
       IN /\ arrs' = (NewId(c) :> newarr) @@ arrs
          /\ tmp' = [tmp EXCEPT ![c] = [ptr |-> NewId(c),
                                        len |-> tmp[c].len, cap |-> newcap]]
          /\ chann' = [chann EXCEPT !.ptr = NewId(c), !.cap = newcap]
    /\ pc' = [pc EXCEPT ![c] = "SafeLogStoreLen"]
    /\ UNCHANGED <<logger, chans, out, wg, panicked, prog, idx, arg, saw, ch,
                   rng, i, v, val, drained, rets, enqueued>>

\* append: the store of chann.len
SafeLogStoreLen(c) ==
    /\ Running /\ pc[c] = "SafeLogStoreLen"
    /\ chann' = [chann EXCEPT !.len = tmp[c].len + 1]
    /\ pc' = [pc EXCEPT ![c] = "SafeLogStoreElem"]
    /\ UNCHANGED <<logger, arrs, chans, out, wg, panicked, prog, idx, arg,
                   saw, ch, tmp, rng, i, v, val, drained, rets, enqueued>>

\* variant: after queueing, the call falls through to Log(msg)
SafeLogStoreElem_AlsoLog(c) ==
    /\ Running /\ pc[c] = "SafeLogStoreElem"
    /\ arrs' = [arrs EXCEPT ![tmp[c].ptr][tmp[c].len + 1] = ch[c]]
    /\ enqueued' = Append(enqueued, ch[c])
    /\ ch' = [ch EXCEPT ![c] = NilChan]
    /\ tmp' = [tmp EXCEPT ![c] = EmptySlice]
    /\ pc' = [pc EXCEPT ![c] = "Log"]
    /\ UNCHANGED <<logger, chann, chans, out, wg, panicked, prog, idx, arg,
                   saw, rng, i, v, val, drained, rets>>

\* append: the store of the element ch into the array; then return nil
SafeLogStoreElem(c) ==
    /\ Running /\ pc[c] = "SafeLogStoreElem"
    /\ arrs' = [arrs EXCEPT ![tmp[c].ptr][tmp[c].len + 1] = ch[c]]
    /\ enqueued' = Append(enqueued, ch[c])
    /\ ch' = [ch EXCEPT ![c] = NilChan]
    /\ tmp' = [tmp EXCEPT ![c] = EmptySlice]
    /\ Return(c, Nil, saw[c] = "ready")
    /\ UNCHANGED <<logger, chann, chans, out, wg, panicked, prog, rng, i, v,
                   val, drained>>

(* ------------------------------ logger.Init --------------------------- *)
\* variant: the queue is replayed before the logger is set
InitSleep_SkipSet ==
    /\ Running /\ pc["init"] = "InitSleep"
    /\ pc' = [pc EXCEPT !["init"] = "InitRange"]
    /\ UNCHANGED <<logger, chann, arrs, chans, out, wg, panicked, prog, idx,
                   arg, saw, ch, tmp, rng, i, v, val, drained, rets,
                   enqueued>>

\* time.Sleep(5 * time.Second); fmt.Println("Init")
InitSleep ==
    /\ Running /\ pc["init"] = "InitSleep"
    /\ pc' = [pc EXCEPT !["init"] = "InitSet"]
    /\ UNCHANGED <<logger, chann, arrs, chans, out, wg, panicked, prog, idx,
                   arg, saw, ch, tmp, rng, i, v, val, drained, rets,
                   enqueued>>

\* variant: the logger is assigned without its instance, Logger{}
InitSet_Empty ==
    /\ Running /\ pc["init"] = "InitSet"
    /\ logger' = [instance |-> ""]
    /\ pc' = [pc EXCEPT !["init"] = "InitRange"]
    /\ UNCHANGED <<chann, arrs, chans, out, wg, panicked, prog, idx, arg,
                   saw, ch, tmp, rng, i, v, val, drained, rets, enqueued>>

\* logger = Logger{instance: "Logger"}
InitSet ==
    /\ Running /\ pc["init"] = "InitSet"
    /\ logger' = [instance |-> "Logger"]
    /\ pc' = [pc EXCEPT !["init"] = "InitRange"]
    /\ UNCHANGED <<chann, arrs, chans, out, wg, panicked, prog, idx, arg,
                   saw, ch, tmp, rng, i, v, val, drained, rets, enqueued>>

\* variant: the loop starts at the second entry (off by one)
InitRange_FromSecond ==
    /\ Running /\ pc["init"] = "InitRange"
    /\ rng' = chann
    /\ i' = 2
    /\ pc' = [pc EXCEPT !["init"] =
                IF chann.len >= 2 THEN "InitLoad" ELSE "InitWgDone"]
    /\ UNCHANGED <<logger, chann, arrs, chans, out, wg, panicked, prog, idx,
                   arg, saw, ch, tmp, v, val, drained, rets, enqueued>>

\* for _, v := range chann   (the header of chann is read once, here)
InitRange ==
    /\ Running /\ pc["init"] = "InitRange"
    /\ rng' = chann
    /\ i' = 1
    /\ pc' = [pc EXCEPT !["init"] =
                IF chann.len >= 1 THEN "InitLoad" ELSE "InitWgDone"]
    /\ UNCHANGED <<logger, chann, arrs, chans, out, wg, panicked, prog, idx,
                   arg, saw, ch, tmp, v, val, drained, rets, enqueued>>

\* variant: the loop walks the ranged slice from its last element down
InitLoad_Reverse ==
    /\ Running /\ pc["init"] = "InitLoad"
    /\ v' = Slot(arrs, rng.ptr, rng.len + 1 - i)
    /\ drained' = Append(drained, v')
    /\ pc' = [pc EXCEPT !["init"] = "InitRecv"]
    /\ UNCHANGED <<logger, chann, arrs, chans, out, wg, panicked, prog, idx,
                   arg, saw, ch, tmp, rng, i, val, rets, enqueued>>

\* v := the i-th element of the ranged slice, read from its array now
InitLoad ==
    /\ Running /\ pc["init"] = "InitLoad"
    /\ v' = Slot(arrs, rng.ptr, i)
    /\ drained' = Append(drained, v')
    /\ pc' = [pc EXCEPT !["init"] = "InitRecv"]
    /\ UNCHANGED <<logger, chann, arrs, chans, out, wg, panicked, prog, idx,
                   arg, saw, ch, tmp, rng, i, val, rets, enqueued>>

\* val := <-v   (blocks for ever on a nil channel and on an empty open one;
\* yields the zero value from a closed one; a wild pointer faults)
InitRecv ==
    /\ Running /\ pc["init"] = "InitRecv"
    /\ v # NilChan
    /\ IF ~IsChan(v)
       THEN /\ panicked' = TRUE
            /\ UNCHANGED <<val, chans, arg, pc>>
       ELSE /\ IF Len(chans[v].buf) > 0
               THEN /\ val' = Head(chans[v].buf)
                    /\ chans' = [chans EXCEPT ![v].buf = Tail(@)]
               ELSE /\ chans[v].closed
                    /\ val' = [message |-> NoMsg]
                    /\ UNCHANGED chans
            /\ arg' = [arg EXCEPT !["init"] = val'.message]
            /\ pc' = [pc EXCEPT !["init"] = "Log"]
            /\ UNCHANGED panicked
    /\ UNCHANGED <<logger, chann, arrs, out, wg, prog, idx, saw, ch, tmp,
                   rng, i, v, drained, rets, enqueued>>

\* variant: the loop goes on to the next element without closing v
InitClose_NoClose ==
    /\ Running /\ pc["init"] = "InitClose"
    /\ i' = i + 1
    /\ pc' = [pc EXCEPT !["init"] =
                IF i < rng.len THEN "InitLoad" ELSE "InitWgDone"]
    /\ UNCHANGED <<logger, chann, arrs, chans, out, wg, panicked, prog, idx,
                   arg, saw, ch, tmp, rng, v, val, drained, rets, enqueued>>

\* close(v), then the next iteration of the loop
InitClose ==
    /\ Running /\ pc["init"] = "InitClose"
    /\ IF ~IsChan(v) \/ chans[v].closed
       THEN /\ panicked' = TRUE
            /\ UNCHANGED <<chans, i, pc>>
       ELSE /\ chans' = [chans EXCEPT ![v].closed = TRUE]
            /\ i' = i + 1
            /\ pc' = [pc EXCEPT !["init"] =
                        IF i < rng.len THEN "InitLoad" ELSE "InitWgDone"]
            /\ UNCHANGED panicked
    /\ UNCHANGED <<logger, chann, arrs, out, wg, prog, idx, arg, saw, ch,
                   tmp, rng, v, val, drained, rets, enqueued>>

\* wg.Done()
InitWgDone ==
    /\ Running /\ pc["init"] = "InitWgDone"
    /\ wg' = wg - 1
    /\ pc' = [pc EXCEPT !["init"] = "done"]
    /\ UNCHANGED <<logger, chann, arrs, chans, out, panicked, prog, idx, arg,
                   saw, ch, tmp, rng, i, v, val, drained, rets, enqueued>>

(* --------------------------------- main ------------------------------- *)
\* wg.Wait() after the loop, then main returns
MainWait ==
    /\ Running /\ pc["main"] = "idle" /\ ~HasNext("main")
    /\ wg = 0
    /\ pc' = [pc EXCEPT !["main"] = "exit"]
    /\ UNCHANGED <<logger, chann, arrs, chans, out, wg, panicked, prog, idx,
                   arg, saw, ch, tmp, rng, i, v, val, drained, rets,
                   enqueued>>

(* ---------------------------- specifications -------------------------- *)
Next ==
    \/ \E c \in Callers : Caller1(c)
    \/ \E c \in Callers : Caller2(c)
    \/ \E p \in Procs : LogCheck(p)
    \/ \E p \in Procs : LogPrint(p)
    \/ \E c \in Callers : SafeLogCheck(c)
    \/ \E c \in Callers : SafeLogMake(c)
    \/ \E c \in Callers : SafeLogSend(c)
    \/ \E c \in Callers : SafeLogLoad(c)
    \/ \E c \in Callers : SafeLogGrow(c)
    \/ \E c \in Callers : SafeLogStoreLen(c)
    \/ \E c \in Callers : SafeLogStoreElem(c)
    \/ InitSleep
    \/ InitSet
    \/ InitRange
    \/ InitLoad
    \/ InitRecv
    \/ InitClose
    \/ InitWgDone
    \/ MainWait

\* concurrent callers of the exported functions, any call sequences
Spec == Init /\ [][Next]_vars

\* the program as main.go runs it
SpecMain == InitMain /\ [][Next]_vars

\* the package used by two goroutines at once
SpecRace == InitRace /\ [][Next]_vars

(* ----------------------- vocabulary of the properties ----------------- *)
\* how many times Log has printed the message m
Printed(m) == Cardinality({k \in DOMAIN out : out[k].msg = m})

\* some channel has been given the message m
Queued(m) ==
    \E k \in DOMAIN chans :
        \E j \in DOMAIN chans[k].hist : chans[k].hist[j].message = m

\* the prints made by Init's loop, in order
Replayed == SelectSeq(out, LAMBDA e : e.by = "init")

MsgsOf(s) == [k \in DOMAIN s |-> s[k].msg]
PayloadsOf(q) == [k \in DOMAIN q |-> Payload(q[k])]

\* every caller has returned from all its calls
CallersReturned == \A c \in Callers : ~HasNext(c) /\ pc[c] \in {"idle", "exit"}

InitDone == pc["init"] = "done"

\* Init has executed `logger = Logger{...}`
InitPastSet == pc["init"] \notin {"InitSleep", "InitSet"}

\* the finished SafeLog calls that took the not-ready branch
Deferred(c) == {k \in DOMAIN rets[c] :
                   rets[c][k].fn = "Caller2" /\ ~rets[c][k].sawReady}

(* -------------------------------- C1 ---------------------------------- *)
\* C1: if every SafeLog call completed while the gate was NotReady, then once
\* Init is done Log has printed, at replay, exactly the queued payloads, one
\* print per call, in the order in which the calls were enqueued.
C1_QueueThenReplay ==
    ( /\ InitDone
      /\ CallersReturned
      /\ \A c \in Callers : \A k \in DOMAIN rets[c] :
            rets[c][k].fn = "Caller2" => ~rets[c][k].readyAtReturn )
    => MsgsOf(Replayed) = PayloadsOf(enqueued)

(* -------------------------------- C2 ---------------------------------- *)
\* C2: when Init drains (evaluates `range chann`) after the callers' SafeLog
\* calls have returned, the drained slice has as many entries as there are
\* SafeLog calls that queued and returned nil: no enqueue was overwritten by
\* a concurrent one.
C2_NoLostEnqueue ==
    [][ ( /\ pc["init"] = "InitRange" /\ pc'["init"] # "InitRange"
          /\ \A c \in Callers : pc[c] = "idle" )
        => Len(SliceOf(arrs', rng')) = Len(enqueued) ]_vars

(* -------------------------------- C3 ---------------------------------- *)
\* C3: once the program is over (Init done, main returned from wg.Wait), the
\* payload of every SafeLog call that took the not-ready branch and returned
\* nil has been printed.
C3_DeferredIsExecuted ==
    (InitDone /\ pc["main"] = "exit")
    => \A k \in Deferred("main") :
          rets["main"][k].err = Nil => Printed(rets["main"][k].msg) >= 1

(* -------------------------------- C4 ---------------------------------- *)
\* C4: a Caller1/Log call that read the gate as NotReady returned the
\* not-initialized error, its message is never printed and no channel ever
\* carries it.
C4_FailFast ==
    \A c \in Callers : \A k \in DOMAIN rets[c] :
        (rets[c][k].fn = "Caller1" /\ ~rets[c][k].sawReady)
        => /\ rets[c][k].err = NotInitialized
           /\ Printed(rets[c][k].msg) = 0
           /\ ~Queued(rets[c][k].msg)

C4_Witness ==
    \E c \in Callers : \E k \in DOMAIN rets[c] :
        /\ rets[c][k].fn = "Caller1" /\ ~rets[c][k].sawReady
        /\ rets[c][k].err = NotInitialized
        /\ Len(out) >= 1 /\ chann.len >= 1

(* -------------------------------- C5 ---------------------------------- *)
\* C5: a Log or SafeLog call whose readiness check read Ready has, when it
\* returns, printed its message exactly once, itself, returns nil (the
\* outcome of the print), and no channel carries its message.
C5_PassThrough ==
    \A c \in Callers : \A k \in DOMAIN rets[c] :
        rets[c][k].sawReady
        => /\ rets[c][k].err = Nil
           /\ Printed(rets[c][k].msg) = 1
           /\ \E j \in DOMAIN out : out[j] = [msg |-> rets[c][k].msg, by |-> c]
           /\ ~Queued(rets[c][k].msg)

C5_Witness ==
    \E c \in Callers : \E k, j \in DOMAIN rets[c] :
        /\ rets[c][k].fn = "Caller1" /\ rets[c][k].sawReady
        /\ rets[c][j].fn = "Caller2" /\ rets[c][j].sawReady

(* -------------------------------- C6 ---------------------------------- *)
\* C6: when a SafeLog call that read the gate as NotReady returns, it returns
\* nil, it has printed nothing, and the queue holds exactly one entry for it:
\* its channel, holding exactly the message the call was given.
C6_DeferredAppendsOne ==
    [][ \A c \in Callers :
          (pc[c] = "SafeLogStoreElem" /\ pc'[c] = "idle")
          => /\ rets'[c][Len(rets'[c])].err = Nil
             /\ Printed(arg[c]) = 0 /\ out' = out
             /\ chans[ch[c]].buf = <<[message |-> arg[c]]>>
             /\ Cardinality({k \in 1..chann'.len :
                                Slot(arrs', chann'.ptr, k) = ch[c]}) = 1 ]_vars

(* -------------------------------- C7 ---------------------------------- *)
\* C7: the gate starts NotReady; the only step that changes it is Init's
\* assignment, which takes it from NotReady to Ready; it is Ready in every
\* state after that assignment, so it never reverts.
C7_ReadinessMonotonic ==
    /\ ~IsInitialized(logger)
    /\ [](InitPastSet => IsInitialized(logger))
    /\ [][ /\ IsInitialized(logger) => IsInitialized(logger')
           /\ logger' # logger
                => /\ pc["init"] = "InitSet"
                   /\ ~IsInitialized(logger) /\ IsInitialized(logger') ]_vars

C7_Witness ==
    /\ IsInitialized(logger)
    /\ \E c \in Callers : \E k \in DOMAIN rets[c] : rets[c][k].sawReady
    /\ \E c \in Callers : \E k \in DOMAIN rets[c] : ~rets[c][k].sawReady

(* -------------------------------- C8 ---------------------------------- *)
\* C8: no message is printed more than once (so never both inline and at
\* replay, and never replayed twice), and the prints made by Init's loop are
\* the payloads of the entries Init's loop read from the slice, in the order
\* of the slice, no entry being read twice.
C8_AtMostOnce ==
    /\ \A k \in DOMAIN out : Printed(out[k].msg) = 1
    /\ Len(Replayed) <= Len(drained) /\ Len(drained) <= rng.len
    /\ \A j, k \in DOMAIN drained : j # k => drained[j] # drained[k]
    /\ MsgsOf(Replayed) = PayloadsOf(SubSeq(drained, 1, Len(Replayed)))

C8_Witness ==
    /\ Len(Replayed) >= 2
    /\ InitDone

(* -------------------------------- C9 ---------------------------------- *)
\* C9: in main's program, if all ten calls returned while the gate was still
\* NotReady, then the Caller1 calls returned the not-initialized error, the
\* Caller2 calls returned nil, and once Init is done the output of Log is
\* exactly caller2 value-1 .. value-5, in that order, printed by Init.
C9_MainScenario ==
    ( /\ InitDone
      /\ Len(rets["main"]) = 2 * Iterations
      /\ \A k \in DOMAIN rets["main"] : ~rets["main"][k].readyAtReturn )
    => /\ \A k \in DOMAIN rets["main"] :
            rets["main"][k].err = IF k % 2 = 1 THEN NotInitialized ELSE Nil
       /\ out = [k \in 1..Iterations |->
                    [msg |-> Sprintf("caller2", k), by |-> "init"]]
       /\ IsInitialized(logger)

C9_Witness ==
    /\ InitDone
    /\ pc["main"] = "exit"
    /\ Len(rets["main"]) = 2 * Iterations
    /\ \A k \in DOMAIN rets["main"] : ~rets["main"][k].readyAtReturn

(* -------------------------------- C10 --------------------------------- *)
\* C10: whenever Init is in or past its loop the gate is Ready; the entries
\* Init has replayed are a prefix of the drained slice in slice order, one at
\* a time (the loop index is at most one ahead of the prints); wg.Done has
\* happened only if every drained entry was replayed; and no Log call made
\* by Init returned the not-initialized error.
C10_InitOrdering ==
    /\ (InitPastSet \/ Len(Replayed) > 0) => IsInitialized(logger)
    /\ \A k \in DOMAIN out : out[k].by = "init" => InitPastSet
    /\ MsgsOf(Replayed) = PayloadsOf(SubSeq(drained, 1, Len(Replayed)))
    /\ pc["init"] \in {"InitLoad", "InitRecv", "Log", "LogPrint"}
          => Len(Replayed) = i - 1
    /\ pc["init"] = "InitClose" => Len(Replayed) = i
    /\ (wg = 0 \/ InitDone) => Len(Replayed) = rng.len
    /\ \A k \in DOMAIN rets["init"] : rets["init"][k].err = Nil

C10_Witness ==
    /\ InitDone /\ wg = 0
    /\ rng.len >= 2
    /\ Len(Replayed) = rng.len

(* -------------------------------- C11 --------------------------------- *)

\* C11: while the program runs, the send of a SafeLog call at `ch <- ld` can
\* proceed, Init's receive at `val := <-v` can proceed, and some goroutine can
\* take a step until main has returned from wg.Wait: nothing blocks for ever.
C11_NoBlocking ==
    Running =>
        /\ \A c \in Callers : pc[c] = "SafeLogSend" => ENABLED SafeLogSend(c)
        /\ pc["init"] = "InitRecv" => ENABLED InitRecv
        /\ ENABLED Next

(* -------------------------------- C12 --------------------------------- *)
\* Init has taken an entry out of channel c
Received(c) ==
    \E k \in DOMAIN drained :
        /\ drained[k] = c
        /\ k < Len(drained) \/ pc["init"] # "InitRecv"

\* C12: nothing panics or faults (no send on a closed channel, no close of a
\* closed channel, no receive from something that is not a channel); a
\* channel is closed only by Init's loop and only after Init received its
\* entry; a call that fails returns the error value.
C12_NoPanic ==
    /\ ~panicked
    /\ \A c \in DOMAIN chans :
          chans[c].closed => Received(c) /\ chans[c].buf = <<>>
    /\ \A p \in Procs : \A k \in DOMAIN rets[p] :
          rets[p][k].err \in {Nil, NotInitialized}

(* -------------------------------- C13 --------------------------------- *)
\* C13: no step of a caller, that is no step of a Log or SafeLog call on
\* either branch, changes logger; no step inside Log (a caller's, SafeLog's
\* inline one, Init's replay) changes the queue: the header chann, the
\* backing arrays, the channels.
C13_CallsKeepReadiness ==
    [][ /\ \A c \in Callers : pc'[c] # pc[c] => logger' = logger
        /\ \A p \in Procs :
              pc[p] \in {"Log", "LogPrint"} /\ pc'[p] # pc[p] =>
                  /\ logger' = logger
                  /\ chann' = chann /\ arrs' = arrs /\ chans' = chans ]_vars

\* both branches of SafeLog have returned, and Log has printed while the
\* queue was not empty
C13_Witness ==
    /\ \E c \in Callers : \E k \in DOMAIN rets[c] :
          rets[c][k].fn = "Caller2" /\ ~rets[c][k].sawReady
    /\ \E c \in Callers : \E k \in DOMAIN rets[c] :
          rets[c][k].fn = "Caller2" /\ rets[c][k].sawReady
                                    /\ rets[c][k].err = Nil
    /\ chann.len >= 1
    /\ out # <<>>

(* -------------------------------- C14 --------------------------------- *)
\* Log has printed a, and later b
ExecutedBefore(a, b) ==
    \E j, k \in DOMAIN out : j < k /\ out[j].msg = a /\ out[k].msg = b

\* the returned SafeLog calls j, k of caller c, j issued before k
SafeLogPairs(c) ==
    {jk \in (DOMAIN rets[c]) \X (DOMAIN rets[c]) :
        /\ jk[1] < jk[2]
        /\ rets[c][jk[1]].fn = "Caller2" /\ rets[c][jk[2]].fn = "Caller2"}

\* C14 as stated: if a caller issued SafeLog(a) and then SafeLog(b), then b
\* is not printed unless a was printed before it, whatever the gate was at
\* either call.
C14_CallerOrder ==
    \A c \in Callers : \A jk \in SafeLogPairs(c) :
        LET a == rets[c][jk[1]].msg
            b == rets[c][jk[2]].msg
        IN Printed(b) >= 1 => ExecutedBefore(a, b)

\* C14 amended: with main as the only caller, if it issued SafeLog(a) and then
\* SafeLog(b), and either a was executed inline or b was queued as well, then
\* b is not printed unless a was printed before it.
C14_CallerOrderSameBranch ==
    \A c \in Callers : \A jk \in SafeLogPairs(c) :
        LET ra == rets[c][jk[1]]
            rb == rets[c][jk[2]]
        IN (ra.sawReady \/ ~rb.sawReady) /\ Printed(rb.msg) >= 1
               => ExecutedBefore(ra.msg, rb.msg)

\* two SafeLog calls of one caller were both queued and both replayed; and a
\* later one was executed inline
C14_Witness ==
    \E c \in Callers :
        /\ \E jk \in SafeLogPairs(c) :
              /\ ~rets[c][jk[1]].sawReady /\ ~rets[c][jk[2]].sawReady
              /\ Printed(rets[c][jk[1]].msg) = 1
              /\ Printed(rets[c][jk[2]].msg) = 1
        /\ \E k \in DOMAIN rets[c] :
              rets[c][k].fn = "Caller2" /\ rets[c][k].sawReady

(* -------------------------------- C15 --------------------------------- *)
\* channel c has been stored into a backing array of chann
Appended(c) ==
    \E p \in DOMAIN arrs : \E k \in DOMAIN arrs[p] : arrs[p][k] = c

\* Init's loop has finished the iteration that took channel c
Processed(c) ==
    \E k \in DOMAIN drained : drained[k] = c /\ k < i

\* C15: every channel SafeLog made has capacity 1 and was sent to at most
\* once; once it is appended it has been sent to exactly once and, until Init
\* receives from it, it is open and holds that one entry; after Init received
\* from it it is empty, and after Init's iteration on it, it is closed.
C15_OneSlotChannels ==
    \A c \in DOMAIN chans :
        /\ chans[c].cap = ChanCap
        /\ Len(chans[c].hist) <= 1
        /\ Appended(c) =>
              /\ Len(chans[c].hist) = 1
              /\ IF Received(c)
                 THEN chans[c].buf = <<>>
                 ELSE chans[c].buf = chans[c].hist /\ ~chans[c].closed
        /\ Processed(c) => chans[c].closed /\ chans[c].buf = <<>>

\* the queue holds a channel Init has processed and one it has not reached
C15_Witness ==
    \E j, k \in 1..chann.len :
        LET cj == Slot(arrs, chann.ptr, j)
            ck == Slot(arrs, chann.ptr, k)
        IN /\ IsChan(cj) /\ IsChan(ck)
           /\ Processed(cj) /\ chans[cj].closed
           /\ ~Received(ck) /\ Len(chans[ck].buf) = 1

====
